---- MODULE Spec2Model ----
(***************************************************************************)
(* Model of src/services/trading-engine/backtest/backtest.py: the          *)
(* BacktestEngine pipeline load_data -> add_indicators -> run_simulation   *)
(* -> generate_report, as run by the __main__ block.                       *)
(*                                                                         *)
(* Numbers.  Prices, pnl and the balance are float64 in the program.  The  *)
(* model holds such a number as a record [hi, lo] that stands for          *)
(* hi * 10^17 + lo, with hi and lo small integers, and rounds the result   *)
(* of every +, - and * to the nearest float64 (ties to even), as the       *)
(* program's arithmetic does.  An indicator value (talib output) is a      *)
(* record [nan, num, den]: NaN, or the rational num/den; comparisons with  *)
(* the thresholds are done by cross multiplication.                        *)
(* Optional values (None in the program) are sequences of length 0 or 1.   *)
(***************************************************************************)
EXTENDS Integers, Sequences, FiniteSets, TLC

VARIABLES
    has_arg,        \* len(sys.argv) >= 2
    csv,            \* the file at data_path, as pd.read_csv will see it
    pc,             \* position of the process in __main__
    df,             \* self.df
    balance,        \* self.balance
    positions,      \* self.positions
    trades,         \* self.trades
    in_position,    \* local of run_simulation
    entry_price,    \* local of run_simulation
    entry_time,     \* local of run_simulation
    i,              \* number of rows the for loop has consumed
    report,         \* the report printed by generate_report (None before)
    exit_status,    \* exit status of the process (None while it runs)
    run,            \* which invocation of the program this is (1 or 2)
    first_run,      \* what the first invocation produced (None during it)
    calls           \* number of calls of run_simulation on this engine

vars == <<has_arg, csv, pc, df, balance, positions, trades, in_position,
          entry_price, entry_time, i, report, exit_status, run, first_run,
          calls>>

----------------------------------------------------------------------------
(* Program constants *)

INITIAL_BALANCE == 10000
STAKE_AMOUNT == 10
timeperiod == 14
entryThreshold == 30
exitThreshold == 70
DummyPeriods == 100

(* Bounds of the model *)

\* longest input file, in ticks
MaxTicks == 17
\* number of trailing ticks of an input file whose price varies freely
MaxFree == 3
\* longest indicator frame handed directly to run_simulation
MaxSimTicks == 4
\* longest indicator frame of the replays checked for termination
MaxReplayTicks == 6
\* longest indicator frame of the replays that buy and sell by turns
MaxTripTicks == 12

----------------------------------------------------------------------------
(* float64 prices and balances: Float(hi, lo) is hi * 10^17 + lo *)

Float(hi, lo) == [hi |-> hi, lo |-> lo]
F(x) == Float(0, x)

Abs(x) == IF x < 0 THEN -x ELSE x

\* the spacing of float64 around h * 10^17, for an integer h >= 1: 16 up to
\* 2^57 = 1.44115... * 10^17, and doubling with each binade
RECURSIVE UlpFrom(_, _)
UlpFrom(h, u) ==
    IF h * 100000 < 144115 * (u \div 16) THEN u ELSE UlpFrom(h, 2 * u)
Ulp(h) == UlpFrom(h, 16)

\* the multiple of u nearest to x, the even multiple on a tie
RoundEven(x, u) ==
    LET q == x \div u
        r == x % u
    IN IF 2 * r < u THEN q * u
       ELSE IF 2 * r > u THEN (q + 1) * u
       ELSE IF q % 2 = 0 THEN q * u ELSE (q + 1) * u

\* b^e mod m
RECURSIVE PowMod(_, _, _)
PowMod(b, e, m) == IF e = 0 THEN 1 % m ELSE (b * PowMod(b, e - 1, m)) % m

\* (h * 10^17) mod m for a power of two m: 10^17 is 2^17 * 5^17, so this is
\* 0 while m divides 2^17 and 2^17 * ((h * 5^17) mod (m / 2^17)) above
Residue(h, m) ==
    IF m <= 131072 THEN 0
    ELSE LET k == m \div 131072
         IN 131072 * (((h % k) * PowMod(5, 17, k)) % k)

\* the float64 nearest to hi * 10^17 + lo, ties to the even multiple of the
\* spacing u: the place of hi * 10^17 among the multiples of u is known from
\* its residue modulo 2u
Round(hi, lo) ==
    IF hi = 0 THEN Float(0, lo)
    ELSE LET u == Ulp(Abs(hi))
             y == Residue(hi, 2 * u) + lo
         IN Float(hi, lo + RoundEven(y, u) - y)

FAdd(x, y) == Round(x.hi + y.hi, x.lo + y.lo)
FSub(x, y) == Round(x.hi - y.hi, x.lo - y.lo)
\* x * n for an int n
FMul(x, n) == Round(x.hi * n, x.lo * n)
\* x > 0
FPos(x) == x.hi > 0 \/ (x.hi = 0 /\ x.lo > 0)

\* prices of the input files; prices of the frames given directly
Prices == {F(1), F(2), F(10)}
SimPrices == {F(1), F(2), Float(1, 0)}

None == <<>>
Some(x) == <<x>>

----------------------------------------------------------------------------
(* float64 indicator values *)

NaN == [nan |-> TRUE, num |-> 0, den |-> 1]
Real(n, d) == [nan |-> FALSE, num |-> n, den |-> d]

\* variant of Lt: an undefined value compares as below every threshold
Lt_nan_below(x, c) == x.nan \/ x.num < c * x.den

\* variant of Gt: the threshold itself counts as above it
Gt_or_equal(x, c) == ~x.nan /\ x.num >= c * x.den

\* x < c and x > c for a float x and an integer literal c; False on NaN
Lt(x, c) == ~x.nan /\ x.num < c * x.den
Gt(x, c) == ~x.nan /\ x.num > c * x.den

RECURSIVE Pow(_, _)
Pow(b, e) == IF e = 0 THEN 1 ELSE b * Pow(b, e - 1)

Max0(x) == IF x > 0 THEN x ELSE 0

Min(a, b) == IF a < b THEN a ELSE b

----------------------------------------------------------------------------
(* talib.SMA and talib.RSI, as called by add_indicators, on a column of    *)
(* prices below 10^17 given by their lo parts.  Sequences are 1-indexed    *)
(* here: row j of the model is row j-1 of the frame.                       *)

\* self.df['price'].values, for prices below 10^17
Values(column) == [k \in 1..Len(column) |-> column[k].lo]

RECURSIVE SumPrices(_, _, _)
SumPrices(prices, lo, hi) ==
    IF lo > hi THEN 0 ELSE prices[hi] + SumPrices(prices, lo, hi - 1)

\* SMA: NaN for the first period-1 rows, then the mean of the last period prices
SMA(prices, period) ==
    [j \in 1..Len(prices) |->
        IF j < period THEN NaN
        ELSE Real(SumPrices(prices, j - period + 1, j), period)]

\* gain and loss of the move into row j (j >= 2)
Gain(prices, j) == Max0(prices[j] - prices[j - 1])
Loss(prices, j) == Max0(prices[j - 1] - prices[j])

\* Wilder averages at row j >= period+1, as numerators over period^(j-period):
\* seeded with the plain sums of the first period moves, then
\* prev = (prev * (period-1) + move) / period.
RECURSIVE prevGain(_, _, _)
prevGain(prices, period, j) ==
    IF j = period + 1
    THEN LET RECURSIVE S(_)
             S(k) == IF k < 2 THEN 0 ELSE Gain(prices, k) + S(k - 1)
         IN S(period + 1)
    ELSE (period - 1) * prevGain(prices, period, j - 1)
         + Gain(prices, j) * Pow(period, j - period - 1)

RECURSIVE prevLoss(_, _, _)
prevLoss(prices, period, j) ==
    IF j = period + 1
    THEN LET RECURSIVE S(_)
             S(k) == IF k < 2 THEN 0 ELSE Loss(prices, k) + S(k - 1)
         IN S(period + 1)
    ELSE (period - 1) * prevLoss(prices, period, j - 1)
         + Loss(prices, j) * Pow(period, j - period - 1)

\* TA_IS_ZERO(v): -0.00000001 < v < 0.00000001, for v = num/den >= 0
TA_IS_ZERO(num, den) == num <= (den - 1) \div 100000000

\* one output of RSI: 100*(prevGain/(prevGain+prevLoss)), or 0.0 when the
\* sum of the two averages is zero
RSIValue(g, l, den) ==
    IF TA_IS_ZERO(g + l, den) THEN Real(0, 1) ELSE Real(100 * g, g + l)

\* RSI: NaN for the first period rows (the lookback), then RSIValue
RSI(prices, period) ==
    [j \in 1..Len(prices) |->
        IF j <= period THEN NaN
        ELSE RSIValue(prevGain(prices, period, j), prevLoss(prices, period, j),
                      Pow(period, j - period))]

----------------------------------------------------------------------------
(* Data frames and files *)

NoFrame == [none |-> TRUE, time |-> <<>>, price |-> <<>>, dtype |-> "float64",
            sma_14 |-> <<>>, rsi_14 |-> <<>>]

\* a file: readable when pd.read_csv succeeds on it, loadable when the whole
\* of load_data does
File(ok, time, price, dtype) ==
    [loadable |-> ok, readable |-> ok, time |-> time, price |-> price,
     dtype |-> dtype]

\* a file pd.read_csv reads but whose time column is missing or is not a date
Untimed(price, dtype) ==
    [loadable |-> FALSE, readable |-> TRUE, time |-> <<>>, price |-> price,
     dtype |-> dtype]

\* the frame pd.read_csv leaves in self.df before the time column is made
\* the index: the rows are numbered from 0
RawFrame(file) ==
    [none |-> FALSE, time |-> [k \in 1..Len(file.price) |-> k - 1],
     price |-> file.price, dtype |-> file.dtype, sma_14 |-> <<>>,
     rsi_14 |-> <<>>]

NoFile == File(FALSE, <<>>, <<>>, "float64")

\* the placeholder file __main__ writes when no argument is given
DummyData ==
    File(TRUE, [k \in 1..DummyPeriods |-> k],
         [k \in 1..DummyPeriods |-> F(100 + ((k - 1) % 10))], "int64")

\* str(index): the text of a timestamp
str(index) == ToString(index)

----------------------------------------------------------------------------
(* BacktestEngine.__init__ and the start of the process *)

EngineInit ==
    /\ df = NoFrame
    /\ balance = F(INITIAL_BALANCE)
    /\ positions = <<>>
    /\ trades = <<>>

\* the locals of run_simulation do not exist yet; they are given the values
\* run_simulation will assign
LocalsInit ==
    /\ in_position = FALSE
    /\ entry_price = F(0)
    /\ entry_time = None
    /\ i = 0

\* timestamps 1..n; with defect "dup" the last repeats its predecessor, with
\* "swap" the last two are out of order
Times(n, defect) ==
    [k \in 1..n |->
        IF defect = "dup" /\ k = n /\ n >= 2 THEN n - 1
        ELSE IF defect = "swap" /\ n >= 2 /\ k >= n - 1
             THEN (IF k = n THEN n - 1 ELSE n)
        ELSE k]

\* a price column of n ticks: one price repeated, then a free tail
PriceColumn(n, h, tail) ==
    [k \in 1..n |-> IF k <= n - Len(tail) THEN h ELSE tail[k - (n - Len(tail))]]

InputFiles ==
    {NoFile} \cup
    { Untimed(PriceColumn(n, h, <<>>), ty) :
        n \in 1..MaxTicks, h \in Prices, ty \in {"float64", "int64"} } \cup
    UNION { UNION { { File(TRUE, Times(n, d), PriceColumn(n, h, tail), ty) :
                        tail \in [1..Min(n - 1, MaxFree) -> Prices] } :
                    h \in Prices, d \in {"ok", "dup", "swap"},
                    ty \in {"float64", "int64"} } :
            n \in 1..MaxTicks }

Init ==
    /\ has_arg \in BOOLEAN
    /\ csv \in (IF has_arg THEN InputFiles ELSE {DummyData})
    /\ pc = "load_data"
    /\ EngineInit
    /\ LocalsInit
    /\ report = None
    /\ exit_status = None
    /\ run = 1
    /\ first_run = None
    /\ calls = 0

----------------------------------------------------------------------------
(* load_data: read the file into self.df and make its time column the      *)
(* index; any failure prints and exits 1.  A failure after pd.read_csv      *)
(* leaves the frame as read in self.df.                                     *)

\* variant of load_data: the failure is printed but the process goes on
load_data_no_exit ==
    /\ pc = "load_data"
    /\ IF csv.loadable
       THEN df' = [none |-> FALSE, time |-> csv.time, price |-> csv.price,
                   dtype |-> csv.dtype, sma_14 |-> <<>>, rsi_14 |-> <<>>]
       ELSE IF csv.readable
       THEN df' = RawFrame(csv)
       ELSE UNCHANGED df
    /\ pc' = "add_indicators"
    /\ UNCHANGED <<has_arg, csv, balance, positions, trades, in_position,
                   entry_price, entry_time, i, report, exit_status, run,
                   first_run,
                   calls>>

load_data ==
    /\ pc = "load_data"
    /\ IF csv.loadable
       THEN /\ df' = [none |-> FALSE, time |-> csv.time, price |-> csv.price,
                      dtype |-> csv.dtype, sma_14 |-> <<>>, rsi_14 |-> <<>>]
            /\ pc' = "add_indicators"
            /\ UNCHANGED exit_status
       ELSE /\ pc' = "done"
            /\ exit_status' = Some(1)
            /\ IF csv.readable THEN df' = RawFrame(csv) ELSE UNCHANGED df
    /\ UNCHANGED <<has_arg, csv, balance, positions, trades, in_position,
                   entry_price, entry_time, i, report, run, first_run,
                   calls>>

(* add_indicators: returns at once without a frame; talib rejects a price  *)
(* array that is not float64 with an exception nobody catches; otherwise   *)
(* the two indicator columns are added.                                    *)
add_indicators ==
    /\ pc = "add_indicators"
    /\ IF df.none
       THEN /\ pc' = "run_simulation"
            /\ UNCHANGED <<df, exit_status>>
       ELSE IF df.dtype # "float64"
       THEN /\ pc' = "done"
            /\ exit_status' = Some(1)
            /\ UNCHANGED df
       ELSE /\ df' = [df EXCEPT !.sma_14 = SMA(Values(df.price), timeperiod),
                                !.rsi_14 = RSI(Values(df.price), timeperiod)]
            /\ pc' = "run_simulation"
            /\ UNCHANGED exit_status
    /\ UNCHANGED <<has_arg, csv, balance, positions, trades, in_position,
                   entry_price, entry_time, i, report, run, first_run,
                   calls>>

----------------------------------------------------------------------------
(* run_simulation *)

\* variant of BuySignal: entry is evaluated in either position state
BuySignal_any_state(pos, rsi) == Lt(rsi, entryThreshold)

\* not in_position and rsi < 30
BuySignal(pos, rsi) == ~pos /\ Lt(rsi, entryThreshold)

\* variant of SellSignal: exit is evaluated in either position state
SellSignal_any_state(pos, rsi) == Gt(rsi, exitThreshold)

\* in_position and rsi > 70
SellSignal(pos, rsi) == pos /\ Gt(rsi, exitThreshold)

\* variant of Pnl: the difference is taken the other way round
Pnl_reversed(price, entry) == FSub(entry, price)

\* pnl = (price - entry_price)
Pnl(price, entry) == FSub(price, entry)

\* variant of NewBalance: the stake is left out
NewBalance_unstaked(bal, pnl) == FAdd(bal, pnl)

\* self.balance += pnl * STAKE_AMOUNT
NewBalance(bal, pnl) == FAdd(bal, FMul(pnl, STAKE_AMOUNT))

\* variant of BuyEvent: the entry carries the timestamp before the tick's
BuyEvent_previous_time(price, index) ==
    [type |-> "BUY", price |-> price, time |-> str(index - 1)]

\* variant of BuyEvent: the entry also carries the balance
BuyEvent_with_balance(price, index) ==
    [type |-> "BUY", price |-> price, time |-> str(index),
     balance |-> F(INITIAL_BALANCE)]

\* the BUY entry
BuyEvent(price, index) ==
    [type |-> "BUY", price |-> price, time |-> str(index)]

\* variant of SellEvent: the journal records the price difference, unstaked
SellEvent_raw_pnl(price, index, pnl, bal) ==
    [type |-> "SELL", price |-> price, time |-> str(index), pnl |-> pnl,
     balance |-> bal]

\* variant of SellEvent: the journal records the balance before the update
SellEvent_stale_balance(price, index, pnl, bal) ==
    [type |-> "SELL", price |-> price, time |-> str(index),
     pnl |-> FMul(pnl, STAKE_AMOUNT),
     balance |-> FSub(bal, FMul(pnl, STAKE_AMOUNT))]

\* the SELL entry; bal is self.balance, already updated
SellEvent(price, index, pnl, bal) ==
    [type |-> "SELL", price |-> price, time |-> str(index),
     pnl |-> FMul(pnl, STAKE_AMOUNT), balance |-> bal]

\* entry of run_simulation: the locals are set; iterating a missing frame
\* raises
run_simulation ==
    /\ pc = "run_simulation"
    /\ in_position' = FALSE
    /\ entry_price' = F(0)
    /\ entry_time' = None
    /\ i' = 0
    /\ IF df.none
       THEN pc' = "done" /\ exit_status' = Some(1)
       ELSE pc' = "loop" /\ UNCHANGED exit_status
    /\ calls' = calls + 1
    /\ UNCHANGED <<has_arg, csv, df, balance, positions, trades, report, run,
                   first_run>>

\* variant of run_simulation_tick: a tick that closes a position opens the
\* next one at once
run_simulation_tick_reopen ==
    /\ pc = "loop"
    /\ i < Len(df.price)
    /\ LET index == df.time[i + 1]
           price == df.price[i + 1]
           rsi == df.rsi_14[i + 1]
       IN IF BuySignal(in_position, rsi)
          THEN /\ entry_price' = price
               /\ entry_time' = Some(index)
               /\ in_position' = TRUE
               /\ trades' = Append(trades, BuyEvent(price, index))
               /\ UNCHANGED balance
          ELSE IF SellSignal(in_position, rsi)
          THEN /\ balance' = NewBalance(balance, Pnl(price, entry_price))
               /\ in_position' = TRUE
               /\ entry_price' = price
               /\ entry_time' = Some(index)
               /\ trades' = Append(Append(trades,
                                       SellEvent(price, index,
                                                 Pnl(price, entry_price),
                                                 balance')),
                                   BuyEvent(price, index))
          ELSE UNCHANGED <<entry_price, entry_time, in_position, trades, balance>>
    /\ i' = i + 1
    /\ UNCHANGED <<has_arg, csv, pc, df, positions, report, exit_status, run,
                   first_run, calls>>

\* one iteration of the for loop, on row i (0-based)
run_simulation_tick ==
    /\ pc = "loop"
    /\ i < Len(df.price)
    /\ LET index == df.time[i + 1]
           price == df.price[i + 1]
           rsi == df.rsi_14[i + 1]
       IN IF BuySignal(in_position, rsi)
          THEN /\ entry_price' = price
               /\ entry_time' = Some(index)
               /\ in_position' = TRUE
               /\ trades' = Append(trades, BuyEvent(price, index))
               /\ UNCHANGED balance
          ELSE IF SellSignal(in_position, rsi)
          THEN /\ balance' = NewBalance(balance, Pnl(price, entry_price))
               /\ in_position' = FALSE
               /\ trades' = Append(trades,
                                SellEvent(price, index,
                                          Pnl(price, entry_price), balance'))
               /\ UNCHANGED <<entry_price, entry_time>>
          ELSE UNCHANGED <<entry_price, entry_time, in_position, trades, balance>>
    /\ i' = i + 1
    /\ UNCHANGED <<has_arg, csv, pc, df, positions, report, exit_status, run,
                   first_run,
                   calls>>

\* variant of run_simulation_complete: a position still open is closed at
\* the last price
run_simulation_complete_close ==
    /\ pc = "loop"
    /\ i = Len(df.price)
    /\ pc' = "generate_report"
    /\ IF in_position /\ i > 0
       THEN /\ balance' = NewBalance(balance, Pnl(df.price[i], entry_price))
            /\ trades' = Append(trades,
                             SellEvent(df.price[i], df.time[i],
                                       Pnl(df.price[i], entry_price), balance'))
       ELSE UNCHANGED <<balance, trades>>
    /\ UNCHANGED <<has_arg, csv, df, positions, in_position, entry_price,
                   entry_time, i, report, exit_status, run, first_run,
                   calls>>

\* variant of run_simulation_complete: the loop may end one row early
run_simulation_complete_early ==
    /\ pc = "loop"
    /\ i + 1 >= Len(df.price)
    /\ pc' = "generate_report"
    /\ UNCHANGED <<has_arg, csv, df, balance, positions, trades, in_position,
                   entry_price, entry_time, i, report, exit_status, run,
                   first_run, calls>>

\* the loop is exhausted: "Simulation complete."
run_simulation_complete ==
    /\ pc = "loop"
    /\ i = Len(df.price)
    /\ pc' = "generate_report"
    /\ UNCHANGED <<has_arg, csv, df, balance, positions, trades, in_position,
                   entry_price, entry_time, i, report, exit_status, run,
                   first_run,
                   calls>>

----------------------------------------------------------------------------
(* generate_report *)

\* t.get(key, default)
Get(t, key, default) == IF key \in DOMAIN t THEN t[key] ELSE default

\* variant of TotalTrades: every journal entry counts as a trade
TotalTrades_all_entries(ts) == Len(ts)

\* len([t for t in self.trades if t['type'] == 'SELL'])
TotalTrades(ts) == Cardinality({k \in 1..Len(ts) : ts[k].type = "SELL"})

\* variant of Wins: break-even counts as a win
Wins_break_even(ts) ==
    Cardinality({k \in 1..Len(ts) : ~FPos(FSub(F(0), Get(ts[k], "pnl", F(0))))})

Wins(ts) == Cardinality({k \in 1..Len(ts) : FPos(Get(ts[k], "pnl", F(0)))})

(* float64 quotients.  wins / total_trades * 100 is a float64 division      *)
(* followed by a float64 multiplication, each rounded to nearest, ties to   *)
(* even.  Such a number is zero or a record [zero, exp, mant] whose value   *)
(* lies in [2^exp, 2^(exp+1)): mant is its 53-bit significand as five       *)
(* digits in base 8192 = 2^13, the first of them the leading 1.             *)

Zero == [zero |-> TRUE, exp |-> 0, mant |-> <<0, 0, 0, 0, 0>>]

\* a and b scaled by powers of two until b <= a < 2b; e is the exponent of
\* the quotient
RECURSIVE Normal(_, _, _)
Normal(a, b, e) ==
    IF a < b THEN Normal(2 * a, b, e - 1)
    ELSE IF a >= 2 * b THEN Normal(a, 2 * b, e + 1)
    ELSE [a |-> a, b |-> b, e |-> e]

\* the next k digits of r / b for 0 <= r < b, and the remainder they leave
RECURSIVE Digits(_, _, _)
Digits(r, b, k) ==
    IF k = 0 THEN [digits |-> <<>>, rem |-> r]
    ELSE LET rest == Digits((r * 8192) % b, b, k - 1)
         IN [digits |-> <<(r * 8192) \div b>> \o rest.digits,
             rem |-> rest.rem]

\* one added to digit k of a significand, with the carry
RECURSIVE Inc(_, _)
Inc(m, k) ==
    IF k = 1 \/ m[k] + 1 < 8192 THEN [m EXCEPT ![k] = m[k] + 1]
    ELSE Inc([m EXCEPT ![k] = 0], k - 1)

\* the next float64 above x
RoundUp(x) ==
    LET m == Inc(x.mant, 5)
    IN IF m[1] = 2
       THEN [zero |-> FALSE, exp |-> x.exp + 1, mant |-> <<1, 0, 0, 0, 0>>]
       ELSE [x EXCEPT !.mant = m]

\* -1, 0 or 1 as p is below, equal to or above q
Cmp(p, q) == IF p < q THEN -1 ELSE IF p > q THEN 1 ELSE 0

\* x is an exact result cut off after 53 bits; c tells whether the part cut
\* off is below, equal to or above half a unit in the last place
Nearest(x, c) ==
    IF c > 0 \/ (c = 0 /\ x.mant[5] % 2 = 1) THEN RoundUp(x) ELSE x

\* a / b for ints a >= 0 and b > 0
TrueDiv(a, b) ==
    IF a = 0 THEN Zero
    ELSE LET n == Normal(a, b, 0)
             d == Digits(n.a - n.b, n.b, 4)
         IN Nearest([zero |-> FALSE, exp |-> n.e, mant |-> <<1>> \o d.digits],
                    Cmp(2 * d.rem, n.b))

\* the digits of m * n from digit k up, given the carry c into digit k; the
\* first digit of the result holds what the product has above 53 bits
RECURSIVE Product(_, _, _, _)
Product(m, n, k, c) ==
    LET v == m[k] * n + c
    IN IF k = 1 THEN <<v>>
       ELSE Product(m, n, k - 1, v \div 8192) \o <<v % 8192>>

\* the number of bits of v after its leading bit
RECURSIVE Bits(_)
Bits(v) == IF v < 2 THEN 0 ELSE 1 + Bits(v \div 2)

\* the digits of p \div d from digit k on, given the remainder r carried
\* into digit k, and the remainder left at the end
RECURSIVE Quotient(_, _, _, _)
Quotient(p, d, k, r) ==
    IF k > Len(p) THEN [digits |-> <<>>, rem |-> r]
    ELSE LET cur == r * 8192 + p[k]
             rest == Quotient(p, d, k + 1, cur % d)
         IN [digits |-> <<cur \div d>> \o rest.digits, rem |-> rest.rem]

\* x * n for a float64 x >= 0 and an int n > 0
Scale(x, n) ==
    IF x.zero THEN Zero
    ELSE LET p == Product(x.mant, n, 5, 0)
             s == Bits(p[1])
             d == Pow(2, s)
             q == Quotient(p, d, 1, 0)
         IN Nearest([zero |-> FALSE, exp |-> x.exp + s, mant |-> q.digits],
                    Cmp(2 * q.rem, d))

\* (wins / total_trades * 100) if total_trades > 0 else 0
WinRate(wins, total_trades) ==
    IF total_trades > 0 THEN Scale(TrueDiv(wins, total_trades), 100) ELSE Zero

BuildReport(bal, ts) ==
    [initial_balance |-> F(INITIAL_BALANCE),
     final_balance |-> bal,
     total_trades |-> TotalTrades(ts),
     win_rate |-> WinRate(Wins(ts), TotalTrades(ts)),
     trades |-> ts]

\* the report is printed and the process ends normally
generate_report ==
    /\ pc = "generate_report"
    /\ report' = Some(BuildReport(balance, trades))
    /\ pc' = "done"
    /\ exit_status' = Some(0)
    /\ UNCHANGED <<has_arg, csv, df, balance, positions, trades, in_position,
                   entry_price, entry_time, i, run, first_run,
                   calls>>

----------------------------------------------------------------------------
(* __main__, a second time: the program is started again with the same     *)
(* argument and the same file; a new engine is constructed.                *)

BacktestEngine_init ==
    /\ df' = NoFrame
    /\ balance' = F(INITIAL_BALANCE)
    /\ positions' = <<>>
    /\ trades' = <<>>

main_again ==
    /\ pc = "done"
    /\ run = 1
    /\ first_run' = Some([report |-> report, exit_status |-> exit_status])
    /\ run' = 2
    /\ BacktestEngine_init
    /\ in_position' = FALSE
    /\ entry_price' = F(0)
    /\ entry_time' = None
    /\ i' = 0
    /\ report' = None
    /\ exit_status' = None
    /\ pc' = "load_data"
    /\ calls' = 0
    /\ UNCHANGED <<has_arg, csv>>

Next ==
    \/ load_data
    \/ add_indicators
    \/ run_simulation
    \/ run_simulation_tick
    \/ run_simulation_complete
    \/ generate_report
    \/ main_again

Spec == Init /\ [][Next]_vars

----------------------------------------------------------------------------
(* The pipeline run a second time on the same engine: generate_report has   *)
(* returned, and the caller that holds the engine makes the four calls of   *)
(* __main__ (load_data, add_indicators, run_simulation, generate_report)    *)
(* again.  No new engine is constructed, so nothing of the engine is        *)
(* touched before load_data runs; what the first pass printed is kept for   *)
(* comparison.                                                              *)

pipeline_again ==
    /\ pc = "done"
    /\ exit_status = Some(0)
    /\ run = 1
    /\ first_run' = Some([report |-> report, exit_status |-> exit_status])
    /\ run' = 2
    /\ report' = None
    /\ exit_status' = None
    /\ pc' = "load_data"
    /\ UNCHANGED <<has_arg, csv, df, balance, positions, trades, in_position,
                   entry_price, entry_time, i, calls>>

NextAgain ==
    \/ load_data
    \/ add_indicators
    \/ run_simulation
    \/ run_simulation_tick
    \/ run_simulation_complete
    \/ generate_report
    \/ pipeline_again

SpecAgain == Init /\ [][NextAgain]_vars

----------------------------------------------------------------------------
(* run_simulation and generate_report on an indicator frame given          *)
(* directly: a new engine whose df already holds the price and rsi_14      *)
(* columns.  The rsi values cover NaN, both thresholds and both sides.     *)

RsiValues == {NaN, Real(20, 1), Real(30, 1), Real(70, 1), Real(80, 1)}

InitSim ==
    /\ has_arg = TRUE
    /\ \E n \in 0..MaxSimTicks :
         \E price \in [1..n -> SimPrices], rsi \in [1..n -> RsiValues] :
            /\ csv = File(TRUE, [k \in 1..n |-> k], price, "float64")
            /\ df = [none |-> FALSE, time |-> [k \in 1..n |-> k],
                     price |-> price, dtype |-> "float64",
                     sma_14 |-> [k \in 1..n |-> NaN], rsi_14 |-> rsi]
    /\ pc = "run_simulation"
    /\ balance = F(INITIAL_BALANCE)
    /\ positions = <<>>
    /\ trades = <<>>
    /\ LocalsInit
    /\ report = None
    /\ exit_status = None
    /\ run = 1
    /\ first_run = None
    /\ calls = 0

NextSim ==
    \/ run_simulation
    \/ run_simulation_tick
    \/ run_simulation_complete
    \/ generate_report

SpecSim == InitSim /\ [][NextSim]_vars

----------------------------------------------------------------------------
(* run_simulation invoked a second time on the same engine: a caller that   *)
(* holds the engine calls engine.run_simulation() again after it returned,  *)
(* before asking for the report.  Nothing of the engine is touched by the   *)
(* call itself; run_simulation then sets its locals as on any entry.        *)

run_simulation_again ==
    /\ pc = "generate_report"
    /\ calls = 1
    /\ pc' = "run_simulation"
    /\ UNCHANGED <<has_arg, csv, df, balance, positions, trades, in_position,
                   entry_price, entry_time, i, report, exit_status, run,
                   first_run, calls>>

NextTwice ==
    \/ run_simulation
    \/ run_simulation_tick
    \/ run_simulation_complete
    \/ generate_report
    \/ run_simulation_again

SpecTwice == InitSim /\ [][NextTwice]_vars

----------------------------------------------------------------------------
(* Longer replays at one price: the control of the loop reads the rsi_14    *)
(* column and the position state only, so the frames vary in their length   *)
(* and in their rsi values.                                                 *)

InitReplay ==
    /\ has_arg = TRUE
    /\ \E n \in 0..MaxReplayTicks :
         \E rsi \in [1..n -> RsiValues] :
            /\ csv = File(TRUE, [k \in 1..n |-> k], [k \in 1..n |-> F(1)],
                          "float64")
            /\ df = [none |-> FALSE, time |-> [k \in 1..n |-> k],
                     price |-> [k \in 1..n |-> F(1)], dtype |-> "float64",
                     sma_14 |-> [k \in 1..n |-> NaN], rsi_14 |-> rsi]
    /\ pc = "run_simulation"
    /\ balance = F(INITIAL_BALANCE)
    /\ positions = <<>>
    /\ trades = <<>>
    /\ LocalsInit
    /\ report = None
    /\ exit_status = None
    /\ run = 1
    /\ first_run = None
    /\ calls = 0

SpecReplay == InitReplay /\ [][NextSim]_vars

----------------------------------------------------------------------------
(* Replays that trade at every tick: rsi_14 is below the entry threshold at *)
(* the odd rows and above the exit threshold at the even rows, so a frame   *)
(* of n rows closes n \div 2 trades, each won, lost or even by its prices.  *)

TripPrices == {F(1), F(2)}

InitTrips ==
    /\ has_arg = TRUE
    /\ \E n \in 0..MaxTripTicks :
         \E price \in [1..n -> TripPrices] :
            /\ csv = File(TRUE, [k \in 1..n |-> k], price, "float64")
            /\ df = [none |-> FALSE, time |-> [k \in 1..n |-> k],
                     price |-> price, dtype |-> "float64",
                     sma_14 |-> [k \in 1..n |-> NaN],
                     rsi_14 |-> [k \in 1..n |->
                                   IF k % 2 = 1 THEN Real(20, 1)
                                   ELSE Real(80, 1)]]
    /\ pc = "run_simulation"
    /\ balance = F(INITIAL_BALANCE)
    /\ positions = <<>>
    /\ trades = <<>>
    /\ LocalsInit
    /\ report = None
    /\ exit_status = None
    /\ run = 1
    /\ first_run = None
    /\ calls = 0

SpecTrips == InitTrips /\ [][NextSim]_vars

----------------------------------------------------------------------------
(* Properties *)

Last(seq) == seq[Len(seq)]
IsSell(t) == t.type = "SELL"
IsBuy(t) == t.type = "BUY"
Sells(ts) == SelectSeq(ts, IsSell)
Buys(ts) == SelectSeq(ts, IsBuy)

\* the float64 sum of the pnl of the first n Sell events of a journal, added
\* from the left
RECURSIVE SumPnl(_, _)
SumPnl(ts, n) ==
    IF n = 0 THEN F(0) ELSE FAdd(SumPnl(ts, n - 1), Sells(ts)[n].pnl)

\* start with the pnl of the first n Sell events of a journal added to it one
\* at a time, in journal order
RECURSIVE Accumulate(_, _, _)
Accumulate(start, ts, n) ==
    IF n = 0 THEN start
    ELSE FAdd(Accumulate(start, ts, n - 1), Sells(ts)[n].pnl)

\* the balance recorded by the last Sell event, INITIAL_BALANCE without one
LastSellBalance(ts) ==
    IF Sells(ts) = <<>> THEN F(INITIAL_BALANCE) ELSE Last(Sells(ts)).balance

\* C1: Balance invariant.  After every processed tick the engine's balance is
\* INITIAL_BALANCE plus the sum of pnl over the Sell events of the journal, and
\* the report's final_balance is its initial_balance plus that sum over its
\* trades.
C1_BalanceInvariant ==
    /\ balance = FAdd(F(INITIAL_BALANCE), SumPnl(trades, Len(Sells(trades))))
    /\ report # None =>
         report[1].final_balance
            = FAdd(report[1].initial_balance,
                   SumPnl(report[1].trades, Len(Sells(report[1].trades))))

\* C1, amended: the balance is INITIAL_BALANCE with the pnl of each Sell event
\* of the journal added to it one at a time in journal order, each addition
\* rounded to float64; the report's final_balance is its initial_balance with
\* the pnl of its trades added the same way.
C1_BalanceAccumulated ==
    /\ balance = Accumulate(F(INITIAL_BALANCE), trades, Len(Sells(trades)))
    /\ report # None =>
         report[1].final_balance
            = Accumulate(report[1].initial_balance, report[1].trades,
                         Len(Sells(report[1].trades)))

\* a report after two closed trades whose additions were rounded
C1_Witness ==
    /\ report # None
    /\ Len(Sells(report[1].trades)) >= 2
    /\ report[1].final_balance
         # FAdd(report[1].initial_balance,
                SumPnl(report[1].trades, Len(Sells(report[1].trades))))

\* C2: Mutual exclusion.  The position state is one of Flat (FALSE) and Long
\* (TRUE), no two consecutive journal entries have the same type, and a step
\* that starts and ends Long neither appends an entry nor changes the entry.
C2_Alternation ==
    /\ [](/\ in_position \in BOOLEAN
          /\ \A k \in 1..(Len(trades) - 1) : trades[k].type # trades[k + 1].type)
    /\ [][(in_position /\ in_position') =>
            (trades' = trades /\ entry_price' = entry_price
             /\ entry_time' = entry_time)]_vars

\* Buy, Sell, Buy in the journal, then a tick with rsi < 30 processed while Long
C2_Witness ==
    /\ pc = "loop"
    /\ Len(trades) >= 3
    /\ in_position
    /\ i >= 1
    /\ Lt(df.rsi_14[i], entryThreshold)
    /\ Last(trades).time # str(df.time[i])

\* C3: Warm-up inertness.  A tick whose RSI is NaN appends no journal entry and
\* changes neither the position state nor the balance, whatever its price and
\* whether the engine is Flat or Long.
C3_WarmupInert ==
    [][(pc = "loop" /\ i < Len(df.price) /\ df.rsi_14[i + 1].nan) =>
         (trades' = trades /\ in_position' = in_position
          /\ entry_price' = entry_price /\ balance' = balance)]_vars

\* a NaN tick has just been processed while Long, at a price other than the
\* entry price
C3_Witness ==
    /\ pc = "loop"
    /\ i >= 1
    /\ df.rsi_14[i].nan
    /\ in_position
    /\ df.price[i] # entry_price

\* C4: Unclosed position at end.  When the loop has ended while Long, the last
\* journal entry is a Buy with no Sell after it, the balance is the one the
\* last Sell left (INITIAL_BALANCE without one), and the report counts one
\* trade fewer than there are Buys.
C4_UnclosedPosition ==
    (pc \in {"generate_report", "done"} /\ in_position) =>
        /\ trades # <<>>
        /\ IsBuy(Last(trades))
        /\ Len(Sells(trades)) = Len(Buys(trades)) - 1
        /\ balance = LastSellBalance(trades)
        /\ report # None =>
             /\ report[1].trades = trades
             /\ report[1].total_trades = Len(Buys(trades)) - 1
             /\ report[1].final_balance = LastSellBalance(trades)

\* a report after one closed trade and one position left open
C4_Witness ==
    /\ pc = "done"
    /\ in_position
    /\ report # None
    /\ report[1].total_trades >= 1
    /\ df.price[Len(df.price)] # entry_price

\* the float64 numbers 100.0, 50.0 and 33.33333333333333 (1 / 3 * 100)
OneHundred == [zero |-> FALSE, exp |-> 6, mant |-> <<1, 4608, 0, 0, 0>>]
Fifty == [zero |-> FALSE, exp |-> 5, mant |-> <<1, 4608, 0, 0, 0>>]
ThirdOfHundred == [zero |-> FALSE, exp |-> 5, mant |-> <<1, 341, 2730, 5461, 2730>>]

\* m <= n for two significands, from digit k on
RECURSIVE DigitsLeq(_, _, _)
DigitsLeq(m, n, k) ==
    IF k > Len(m) THEN TRUE
    ELSE m[k] < n[k] \/ (m[k] = n[k] /\ DigitsLeq(m, n, k + 1))

\* x <= y for two float64 numbers that are zero or positive
Leq(x, y) ==
    \/ x.zero
    \/ /\ ~y.zero
       /\ x.exp < y.exp \/ (x.exp = y.exp /\ DigitsLeq(x.mant, y.mant, 1))

\* C5: Win-rate bounds.  Every report has 0 <= win_rate <= 100, and
\* win_rate = 0 when total_trades = 0.
C5_WinRateBounds ==
    report # None =>
        LET w == report[1].win_rate IN
        /\ w.zero \/ (w.mant[1] = 1 /\ \A k \in 2..5 : w.mant[k] \in 0..8191)
        /\ Leq(Zero, w)
        /\ Leq(w, OneHundred)
        /\ report[1].total_trades = 0 => w.zero

\* a report with two winning trades out of three: win_rate is between 50
\* and 100
C5_Witness ==
    /\ report # None
    /\ report[1].total_trades = 3
    /\ Leq(Fifty, report[1].win_rate)
    /\ report[1].win_rate # Fifty
    /\ report[1].win_rate # OneHundred

\* C6: Determinism.  Running the pipeline a second time on the same tick
\* sequence and configuration ends with the same report (final_balance,
\* total_trades, win_rate and journal) and the same exit status as the first.
C6_Determinism ==
    (run = 2 /\ pc = "done") =>
        first_run = Some([report |-> report, exit_status |-> exit_status])

\* the frame holds more than timeperiod ticks of one price, with indicators
FlatFrame ==
    /\ ~df.none
    /\ Len(df.price) > timeperiod
    /\ \A k \in 1..Len(df.price) : df.price[k] = df.price[1]
    /\ df.rsi_14 # <<>>

\* C7: Flat-price scenario.  On a constant-price sequence longer than
\* timeperiod the RSI of every tick after the warm-up is exactly 50, no entry
\* or exit fires, and the report has total_trades = 0 and final_balance =
\* initial_balance.
C7_FlatPriceScenario ==
    FlatFrame =>
        /\ \A j \in (timeperiod + 1)..Len(df.price) :
              ~df.rsi_14[j].nan /\ df.rsi_14[j].num = 50 * df.rsi_14[j].den
        /\ trades = <<>>
        /\ ~in_position
        /\ report # None =>
             /\ report[1].total_trades = 0
             /\ report[1].final_balance = report[1].initial_balance

\* rows whose rsi is below the entry threshold, above the exit threshold
BelowEntry == {k \in 1..Len(df.rsi_14) : Lt(df.rsi_14[k], entryThreshold)}
AboveExit == {k \in 1..Len(df.rsi_14) : Gt(df.rsi_14[k], exitThreshold)}

\* rsi is below 30 at exactly one row and above 70 at exactly one later row
OneDipThenOnePeak ==
    /\ Cardinality(BelowEntry) = 1
    /\ Cardinality(AboveExit) = 1
    /\ \A b \in BelowEntry, s \in AboveExit : b < s

\* C8: Single round trip.  When rsi is below 30 at exactly one row, above 70
\* at exactly one later row and neutral elsewhere, the journal is one Buy at
\* the first of these rows followed by one Sell at the second, total_trades
\* is 1 and final_balance = initial_balance + (sell price - buy price) *
\* STAKE_AMOUNT.
C8_SingleRoundTrip ==
    (pc = "done" /\ report # None /\ OneDipThenOnePeak) =>
        LET b == CHOOSE k \in BelowEntry : TRUE
            s == CHOOSE k \in AboveExit : TRUE
            r == report[1]
        IN /\ Len(r.trades) = 2
           /\ IsBuy(r.trades[1])
           /\ r.trades[1].price = df.price[b]
           /\ r.trades[1].time = str(df.time[b])
           /\ IsSell(r.trades[2])
           /\ r.trades[2].price = df.price[s]
           /\ r.trades[2].time = str(df.time[s])
           /\ r.total_trades = 1
           /\ r.final_balance
                = FAdd(r.initial_balance,
                       FMul(FSub(df.price[s], df.price[b]), STAKE_AMOUNT))

\* a report for such a frame, bought and sold at different prices, with
\* neutral rows before, between and after
C8_Witness ==
    /\ pc = "done"
    /\ report # None
    /\ OneDipThenOnePeak
    /\ Len(df.price) >= 4
    /\ \E b \in BelowEntry, s \in AboveExit : df.price[b] # df.price[s]

\* C9: Load failure is fatal.  When the file cannot be loaded the process
\* ends with exit status 1 straight from load_data: the frame is missing or
\* is the file as read, no indicator is added, no tick is processed and no
\* report is produced.
C9_LoadFailureFatal ==
    (~csv.loadable /\ pc # "load_data") =>
        /\ pc = "done"
        /\ exit_status = Some(1)
        /\ report = None
        /\ df = (IF csv.readable THEN RawFrame(csv) ELSE NoFrame)
        /\ df.sma_14 = <<>> /\ df.rsi_14 = <<>>
        /\ trades = <<>>
        /\ i = 0
        /\ balance = F(INITIAL_BALANCE)

\* the process has ended on a file that was read but has no usable time
\* column
C9_Witness ==
    /\ ~csv.loadable
    /\ csv.readable
    /\ ~df.none
    /\ pc = "done"
    /\ exit_status = Some(1)

\* the timestamps of a file are strictly increasing
Monotonic(time) == \A k \in 1..(Len(time) - 1) : time[k] < time[k + 1]

\* C10: Malformed input is rejected at the boundary.  A file with a duplicate
\* or out-of-order timestamp makes the process fail before the simulation
\* processes a tick: no journal entry, no balance change, no report.
C10_MalformedRejected ==
    (csv.loadable /\ ~Monotonic(csv.time)) =>
        /\ pc \notin {"loop", "generate_report"}
        /\ i = 0
        /\ trades = <<>>
        /\ balance = F(INITIAL_BALANCE)
        /\ report = None
        /\ pc = "done" => exit_status = Some(1)

\* a tick is about to be processed by the loop; its row (1-based) and rsi
TickPending == pc = "loop" /\ i < Len(df.price)
TickRsi == df.rsi_14[i + 1]

\* the step appends exactly one entry to the journal
AppendsOne ==
    /\ Len(trades') = Len(trades) + 1
    /\ SubSeq(trades', 1, Len(trades)) = trades

\* C11: Exit transition.  A tick with rsi > 70 processed while Long appends a
\* Sell whose pnl is (tick price - price of the most recent Buy of the
\* journal) * STAKE_AMOUNT, adds exactly that pnl to the balance, records the
\* updated balance in the Sell, and leaves the engine Flat.
C11_ExitTransition ==
    [][(TickPending /\ in_position /\ Gt(TickRsi, exitThreshold)) =>
         LET price == df.price[i + 1]
             pnl == FMul(FSub(price, Last(Buys(trades)).price), STAKE_AMOUNT)
         IN /\ AppendsOne
            /\ IsSell(Last(trades'))
            /\ Last(trades').price = price
            /\ Last(trades').time = str(df.time[i + 1])
            /\ Last(trades').pnl = pnl
            /\ balance' = FAdd(balance, pnl)
            /\ Last(trades').balance = balance'
            /\ ~in_position']_vars

\* a losing Sell has just been appended, after an earlier closed trade
C11_Witness ==
    /\ pc = "loop"
    /\ i >= 1
    /\ ~in_position
    /\ Len(trades) = 4
    /\ IsSell(Last(trades))
    /\ Last(trades).time = str(df.time[i])
    /\ FPos(FSub(F(0), Last(trades).pnl))

\* C12: Balance frame.  The balance changes only on a step that appends a
\* Sell, and then by one addition of that Sell's pnl; a step that appends a
\* Buy and a step that appends nothing leave it unchanged; Buy entries have
\* no pnl and no balance field.
C12_BalanceFrame ==
    /\ [](\A k \in 1..Len(trades) :
            IsBuy(trades[k]) => DOMAIN trades[k] = {"type", "price", "time"})
    /\ [][/\ balance' # balance => (AppendsOne /\ IsSell(Last(trades')))
          /\ (AppendsOne /\ IsSell(Last(trades'))) =>
                balance' = FAdd(balance, Last(trades').pnl)
          /\ (AppendsOne /\ IsBuy(Last(trades'))) => balance' = balance
          /\ trades' = trades => balance' = balance]_vars

\* a Buy has just been appended at a balance that an earlier Sell changed
C12_Witness ==
    /\ pc = "loop"
    /\ i >= 1
    /\ in_position
    /\ Len(trades) = 3
    /\ IsBuy(Last(trades))
    /\ Last(trades).time = str(df.time[i])
    /\ balance # F(INITIAL_BALANCE)

\* C13: No transition outside the two rules.  A tick processed while Flat with
\* rsi >= 30, or while Long with rsi <= 70, changes neither the position
\* state, the entry price, the journal nor the balance.
C13_NoOtherTransition ==
    [][(/\ TickPending
        /\ ~TickRsi.nan
        /\ \/ ~in_position /\ TickRsi.num >= entryThreshold * TickRsi.den
           \/ in_position /\ TickRsi.num <= exitThreshold * TickRsi.den) =>
         (in_position' = in_position /\ entry_price' = entry_price
          /\ trades' = trades /\ balance' = balance)]_vars

\* ticks with rsi exactly 70 and then below 30 have been processed while Long
C13_Witness ==
    /\ pc = "loop"
    /\ i >= 3
    /\ in_position
    /\ Len(trades) = 1
    /\ df.rsi_14[i - 1] = Real(exitThreshold, 1)
    /\ Lt(df.rsi_14[i], entryThreshold)

\* the row (1-based) of the tick whose time a journal entry carries
RowOf(t) == CHOOSE r \in 1..Len(df.time) : str(df.time[r]) = t.time

\* C14: Single rule per tick.  One tick appends at most one journal entry, and
\* a Buy that follows a Sell carries the time of a strictly later tick.
C14_SingleRulePerTick ==
    /\ [][TickPending =>
            (trades' = trades \/ AppendsOne) /\ i' = i + 1]_vars
    /\ [](\A k \in 1..(Len(trades) - 1) :
            (IsSell(trades[k]) /\ IsBuy(trades[k + 1])) =>
                /\ trades[k + 1].time # trades[k].time
                /\ RowOf(trades[k]) < RowOf(trades[k + 1]))

\* a position was closed and the next one opened by the very next tick
C14_Witness ==
    /\ Len(trades) >= 3
    /\ IsSell(trades[2])
    /\ IsBuy(trades[3])
    /\ RowOf(trades[3]) = RowOf(trades[2]) + 1

\* C15: Report fold.  The report's total_trades is the number of Sell events
\* of the journal, its wins are exactly the Sell events with pnl > 0 (a Sell
\* with pnl = 0 or pnl < 0 and a Buy are not wins), and win_rate is the
\* float64 value of wins / total_trades * 100, or 0 without a trade: 0, 50,
\* 100 for no, half and all trades won, 33.33333333333333 for a third.
C15_ReportFold ==
    report # None =>
        LET r == report[1]
            sells == Cardinality({k \in 1..Len(trades) : IsSell(trades[k])})
            wins == Cardinality({k \in 1..Len(trades) :
                                   IsSell(trades[k]) /\ FPos(trades[k].pnl)})
            w == r.win_rate
        IN /\ r.trades = trades
           /\ r.total_trades = sells
           /\ w = (IF sells > 0 THEN Scale(TrueDiv(wins, sells), 100)
                   ELSE Zero)
           /\ wins = 0 => w.zero
           /\ (sells > 0 /\ wins = sells) => w = OneHundred
           /\ (sells > 0 /\ 2 * wins = sells) => w = Fifty
           /\ (sells > 0 /\ 3 * wins = sells) => w = ThirdOfHundred

\* a report over a journal with a winning, a break-even and a losing Sell
C15_Witness ==
    /\ report # None
    /\ report[1].total_trades = 3
    /\ \E k \in 1..Len(trades) : IsSell(trades[k]) /\ trades[k].pnl = F(0)
    /\ \E k \in 1..Len(trades) : IsSell(trades[k]) /\ FPos(trades[k].pnl)
    /\ \E k \in 1..Len(trades) :
          IsSell(trades[k]) /\ FPos(FSub(F(0), trades[k].pnl))
    /\ report[1].win_rate = ThirdOfHundred

\* C16: Fresh state per simulation.  Every invocation of run_simulation
\* begins its replay with an empty journal, balance INITIAL_BALANCE and
\* position Flat, also a second invocation on the same engine.
C16_FreshState ==
    (pc = "loop" /\ i = 0) =>
        /\ trades = <<>>
        /\ balance = F(INITIAL_BALANCE)
        /\ ~in_position

\* how far the replay has come: the entry, then one per tick, then the
\* report, then the end
Progress ==
    CASE pc = "run_simulation" -> 0
      [] pc = "loop" -> 1 + i
      [] pc = "generate_report" -> 2 + Len(df.price)
      [] OTHER -> 3 + Len(df.price)

\* C17: Termination.  The replay processes each tick exactly once, in
\* sequence order, and then completes with the report: until the end some
\* step is always possible, every step takes the replay further along a
\* path of 3 + (number of ticks) steps, a tick step moves to the next row,
\* and the end is reached only with every row consumed and the report made.
C17_Termination ==
    /\ [](pc = "done" \/ ENABLED NextSim)
    /\ [][Progress' = Progress + 1]_vars
    /\ [][TickPending => (i' = i + 1 /\ pc' = "loop")]_vars
    /\ [](/\ i <= Len(df.price)
          /\ pc \in {"generate_report", "done"} => i = Len(df.price)
          /\ pc = "done" => (report # None /\ exit_status = Some(0)))

\* a replay of the longest frame, with a NaN tick, has ended Long with its
\* report
C17_Witness ==
    /\ pc = "done"
    /\ report # None
    /\ i = Len(df.price)
    /\ i = MaxReplayTicks
    /\ in_position
    /\ Len(trades) = 5
    /\ \E k \in 1..i : df.rsi_14[k].nan

\* C18: Open-position accounting.  On a fresh engine the journal is empty or
\* begins with a Buy, the number of Buys minus the number of Sells is 0 or 1,
\* it is 1 exactly when the engine is Long, and the report's total_trades is
\* the number of Buys, less one when the replay ended Long.
C18_OpenPositionAccounting ==
    LET open == Len(Buys(trades)) - Len(Sells(trades)) IN
    /\ trades = <<>> \/ IsBuy(trades[1])
    /\ open \in {0, 1}
    /\ open = 1 <=> in_position
    /\ report # None =>
         report[1].total_trades
            = (IF in_position THEN Len(Buys(report[1].trades)) - 1
               ELSE Len(Buys(report[1].trades)))

\* a report over two Buys and one Sell
C18_Witness ==
    /\ pc = "done"
    /\ report # None
    /\ in_position
    /\ IsBuy(trades[1])
    /\ Len(Buys(report[1].trades)) = 2
    /\ report[1].total_trades = 1

\* C19: Running balance in the journal.  The balance recorded by every Sell
\* event is INITIAL_BALANCE plus the sum of the pnl of the Sell events up to
\* and including it, and the report's final_balance is the balance recorded
\* by the last Sell event (INITIAL_BALANCE without one).
C19_RunningBalance ==
    /\ \A n \in 1..Len(Sells(trades)) :
          Sells(trades)[n].balance = FAdd(F(INITIAL_BALANCE), SumPnl(trades, n))
    /\ report # None =>
          report[1].final_balance = LastSellBalance(report[1].trades)

\* C19, amended: the balance recorded by every Sell event is INITIAL_BALANCE
\* with the pnl of the Sell events up to and including it added one at a
\* time in journal order, each addition rounded to float64; the report's
\* final_balance is the balance recorded by the last Sell event
\* (INITIAL_BALANCE without one).
C19_RunningBalanceAccumulated ==
    /\ \A n \in 1..Len(Sells(trades)) :
          Sells(trades)[n].balance = Accumulate(F(INITIAL_BALANCE), trades, n)
    /\ report # None =>
          report[1].final_balance = LastSellBalance(report[1].trades)

\* the second Sell of a journal has just recorded a balance that is not
\* INITIAL_BALANCE plus the sum of the two pnl
C19_Witness ==
    /\ pc = "loop"
    /\ Len(Sells(trades)) = 2
    /\ IsSell(Last(trades))
    /\ Last(trades).balance # FAdd(F(INITIAL_BALANCE), SumPnl(trades, 2))
    /\ Last(trades).balance = balance

\* the timestamp whose text a journal entry carries
Timestamp(t) ==
    CHOOSE x \in {df.time[r] : r \in 1..Len(df.time)} : str(x) = t.time

\* the step leaves the journal as it is, or appends one entry with the price
\* and the time of the tick being processed
AppendsTick ==
    \/ trades' = trades
    \/ /\ TickPending
       /\ AppendsOne
       /\ Last(trades').price = df.price[i + 1]
       /\ Last(trades').time = str(df.time[i + 1])

\* C20: Append-only, time-ordered journal.  A step of run_simulation leaves
\* the journal as it is or appends one entry at its end, with the price and
\* the time of the tick being processed; when the timestamps of the input
\* are strictly increasing, so are the times of the journal entries.
C20_AppendOnlyOrdered ==
    /\ [][(pc = "run_simulation" \/ pc = "loop") => AppendsTick]_vars
    /\ [](Monotonic(df.time) =>
            \A k \in 1..(Len(trades) - 1) :
                Timestamp(trades[k]) < Timestamp(trades[k + 1]))

\* a Buy and a later Sell in the journal of a file with increasing timestamps
C20_Witness ==
    /\ run = 1
    /\ pc = "loop"
    /\ Monotonic(df.time)
    /\ Len(trades) = 2
    /\ IsSell(trades[2])
    /\ Timestamp(trades[1]) + 1 < Timestamp(trades[2])

====
